---------------------------- MODULE Spec2Model ----------------------------
(***************************************************************************)
(* A model of calculator-backend/c_library/calculator.c: the RPN evaluator *)
(* (evaluate_rpn), the RPN-to-infix converter (rpn_to_infix) and the       *)
(* helpers they use (the variable table, the token classifier and the      *)
(* operator evaluator).                                                    *)
(*                                                                         *)
(* Strings are sequences of one-character strings, so that strcmp, strlen, *)
(* token[0] and strtod act on characters as they do in C.                  *)
(*                                                                         *)
(* A double is modelled as a sign-magnitude decimal with 12 fractional     *)
(* digits: [neg, w, n, p] is (-1)^neg * (w + n/10^9 + p/10^12).  Nine      *)
(* digits are what round_to_9_decimals keeps; the three digits of p carry  *)
(* what an unrounded value (a literal, M_PI, M_E) has beyond them.  An     *)
(* operation whose result the model cannot represent (too large, or a libm *)
(* function at an argument outside the tabulated ones) yields OutOfModel   *)
(* and the call is not followed any further (pc = "outside").              *)
(***************************************************************************)
EXTENDS Integers, Sequences, FiniteSets, TLC

\* ------------------------------------------------------------ error codes
SUCCESS == 0
DIVISION_BY_ZERO == 1
INVALID_OPERATOR == 2
STACK_UNDERFLOW == 3
MEMORY_ERROR == 4
UNDEFINED_VARIABLE == 5
STACK_MAXIMUM == 6
EXPR_LENGHT_MAXIMUM == 7
FACTORIAL_ERROR == 8
SQUARE_ROOT_INVALID_OPERATOR == 9
LOG_ERROR == 10
LN_ERROR == 11
TAN_INVALID_OPERATOR == 12
INVALID_TRIG_OPERATOR == 13

ErrorCodes == SUCCESS..INVALID_TRIG_OPERATOR

MAX_STACK_SIZE == 100
MAX_VARIABLES == 100
MAX_EXPR_LENGTH == 1000

\* ------------------------------------------------------------ the bounds
\* Longest token sequence of the exhaustively enumerated inputs.
MaxLen == 3
\* Most operand tokens in front of the single operator of a probe input.
MaxOperands == 2

\* ------------------------------------------------------------ characters
Digits == <<"0", "1", "2", "3", "4", "5", "6", "7", "8", "9">>

IsDigit(c) == \E d \in 1..10 : Digits[d] = c

DigitVal(c) == (CHOOSE d \in 1..10 : Digits[d] = c) - 1

\* isspace, as strtod uses it to skip leading white space
IsSpace(c) == c \in {" ", "\t", "\n", "\r", "\f"}

\* ------------------------------------------------------------ the tokens
tPlus == <<"+">>
tMinus == <<"-">>
tTimes == <<"*">>
tDivide == <<"/">>
tPower == <<"^">>
tFact == <<"!">>
tSqrt == <<"s", "q", "r", "t">>
tSin == <<"s", "i", "n">>
tCos == <<"c", "o", "s">>
tTan == <<"t", "a", "n">>
tArcsin == <<"a", "r", "c", "s", "i", "n">>
tArccos == <<"a", "r", "c", "c", "o", "s">>
tArctan == <<"a", "r", "c", "t", "a", "n">>
tLog == <<"l", "o", "g">>
tLn == <<"l", "n">>
tAns == <<"a", "n", "s">>
tPi == <<"p", "i">>
tE == <<"e">>

\* ------------------------------------------------------------ doubles
Nano == 10^9

Val(neg, w, n, p) == [neg |-> neg, w |-> w, n |-> n, p |-> p]

Zero == Val(FALSE, 0, 0, 0)
One == Val(FALSE, 1, 0, 0)

\* The result of an operation the model cannot represent.
OutOfModel == Val(FALSE, -1, 0, 0)

Tracked(v) == v.w >= 0

\* A whole number above INT_MAX, of which the model keeps nothing else: the
\* value of a number token such as "3000000000".
BeyondInt == Val(FALSE, -2, 0, 0)

\* What an expression with undefined behaviour leaves.
Indeterminate == Val(FALSE, -3, 0, 0)

\* INT_MAX, the value of the number token "2147483647"
AtIntMax == Val(FALSE, -4, 0, 0)

\* IsZero as a comparison of the integer part alone, as of (int)v == 0
IsZeroTruncated(v) == v.w = 0

IsZero(v) == v.w = 0 /\ v.n = 0 /\ v.p = 0

\* -0.0 == 0.0 in every comparison the code makes: zero carries no sign.
Norm(v) == IF IsZero(v) THEN Zero ELSE v

Neg(v) == Norm([v EXCEPT !.neg = ~v.neg])

Abs(v) == [v EXCEPT !.neg = FALSE]

\* a < 0, a <= 0, a < b on doubles
LtZero(v) == v.neg /\ ~IsZero(v)

LeZero(v) == v.neg \/ IsZero(v)

MagLess(a, b) ==
    \/ a.w < b.w
    \/ a.w = b.w /\ a.n < b.n
    \/ a.w = b.w /\ a.n = b.n /\ a.p < b.p

\* Less with the bound included: a <= b
LessOrEqual(a, b) ==
    IF a.neg /\ ~b.neg THEN TRUE
    ELSE IF ~a.neg /\ b.neg THEN IsZero(a) /\ IsZero(b)
    ELSE IF a.neg THEN ~MagLess(a, b)
    ELSE ~MagLess(b, a)

Less(a, b) ==
    IF a.neg /\ ~b.neg THEN ~(IsZero(a) /\ IsZero(b))
    ELSE IF ~a.neg /\ b.neg THEN FALSE
    ELSE IF a.neg THEN MagLess(b, a)
    ELSE MagLess(a, b)

\* n == (int)n for a value inside the range of int
IsIntegral(v) == v.n = 0 /\ v.p = 0

IntVal(k) == IF k < 0 THEN Val(TRUE, -k, 0, 0) ELSE Val(FALSE, k, 0, 0)


\* ------------------------------------------------------------ decimal digits
Min(a, b) == IF a < b THEN a ELSE b

Max(a, b) == IF a > b THEN a ELSE b

\* The largest int of the model checker: products are guarded against it.
MaxInt == 2 * (2^30 - 1) + 1

DigitAt(ds, idx) == IF idx >= 1 /\ idx <= Len(ds) THEN ds[idx] ELSE 0

RECURSIVE NatOf(_, _, _)
\* The number written by the digits ds[lo..hi] (0 outside ds).
NatOf(ds, lo, hi) ==
    IF hi < lo THEN 0 ELSE NatOf(ds, lo, hi - 1) * 10 + DigitAt(ds, hi)

RECURSIVE ToDigits(_)
ToDigits(m) == IF m < 10 THEN <<m>> ELSE ToDigits(m \div 10) \o <<m % 10>>

\* ds[first ..] writes a whole number of at least 3 * 10^9
AboveIntMax(ds, pointPos, first) ==
    /\ pointPos - first + 1 >= 10
    /\ pointPos - first + 1 > 10 \/ ds[first] >= 3
    /\ \A k \in (pointPos + 1)..Len(ds) : ds[k] = 0

\* ds[first ..] writes 2147483647
IsIntMax(ds, pointPos, first) ==
    /\ pointPos - first + 1 = 10
    /\ \A k \in 1..10 : DigitAt(ds, first + k - 1) = <<2, 1, 4, 7, 4, 8, 3, 6, 4, 7>>[k]
    /\ \A k \in (pointPos + 1)..Len(ds) : ds[k] = 0

\* The value whose decimal digits are ds with the point after the first
\* pointPos of them, cut after 12 fractional digits; with more than nine
\* integer digits it is BeyondInt when it is positive, whole and at least
\* 3 * 10^9, AtIntMax when it is 2147483647, and outside the model
\* otherwise, as it is when cut to zero.
FromNonZero(neg, ds, pointPos, first) ==
    IF pointPos - first + 1 > 9
    THEN (IF ~neg /\ AboveIntMax(ds, pointPos, first) THEN BeyondInt
          ELSE IF ~neg /\ IsIntMax(ds, pointPos, first) THEN AtIntMax
          ELSE OutOfModel)
    ELSE IF first > pointPos + 12 THEN OutOfModel
    ELSE Val(neg,
             NatOf(ds, first, pointPos),
             NatOf(ds, pointPos + 1, pointPos + 9),
             NatOf(ds, pointPos + 10, pointPos + 12))

FromDigits(neg, ds, pointPos) ==
    IF \A k \in 1..Len(ds) : ds[k] = 0 THEN Zero
    ELSE FromNonZero(neg, ds, pointPos,
                     CHOOSE k \in 1..Len(ds) :
                         ds[k] # 0 /\ \A j \in 1..(k - 1) : ds[j] = 0)

\* Trailing zeros of x > 0, at most most.
TrailingZeros(x, most) ==
    CHOOSE t \in 0..most :
        /\ x % (10^t) = 0
        /\ t = most \/ x % (10^(t + 1)) # 0

\* v = m / 10^k with k least: [ok, m, k]; ok is FALSE when m has more than
\* nine digits.
MantissaAt(v, k) ==
    IF k <= 9
    THEN IF v.w < 10^(9 - k)
         THEN [ok |-> TRUE, m |-> v.w * 10^k + v.n \div 10^(9 - k), k |-> k]
         ELSE [ok |-> FALSE, m |-> 0, k |-> k]
    ELSE IF v.w = 0 /\ v.n < 10^(18 - k)
         THEN [ok |-> TRUE, m |-> v.n * 10^(k - 9) + v.p \div 10^(12 - k), k |-> k]
         ELSE [ok |-> FALSE, m |-> 0, k |-> k]

Mantissa(v) ==
    MantissaAt(v, IF v.p # 0 THEN 12 - TrailingZeros(v.p, 2)
                  ELSE IF v.n # 0 THEN 9 - TrailingZeros(v.n, 8)
                  ELSE 0)

\* ------------------------------------------------------------ arithmetic
\* round_to_9_decimals without the call of round: value * 1e9 / 1e9
round_to_9_decimals_unrounded(value) ==
    IF ~Tracked(value) THEN OutOfModel ELSE value

\* round(value * 1e9) / 1e9: half away from zero on the tenth digit.
round_to_9_decimals(value) ==
    IF ~Tracked(value) THEN OutOfModel
    ELSE IF value.p < 500 THEN Norm([value EXCEPT !.p = 0])
    ELSE IF value.n + 1 < Nano THEN [value EXCEPT !.n = value.n + 1, !.p = 0]
    ELSE IF value.w + 1 < Nano THEN [value EXCEPT !.w = value.w + 1, !.n = 0, !.p = 0]
    ELSE OutOfModel

\* the magnitude with the digit groups w, n, p after their carries
Carried(w, n, p) ==
    IF w + (n + p \div 1000) \div Nano >= Nano THEN OutOfModel
    ELSE Val(FALSE, w + (n + p \div 1000) \div Nano, (n + p \div 1000) % Nano, p % 1000)

MagAdd(a, b) == Carried(a.w + b.w, a.n + b.n, a.p + b.p)

\* a - b for magnitudes with b <= a
Borrowed(a, b, bp, bn) ==
    Val(FALSE, a.w - bn - b.w, a.n - bp + Nano * bn - b.n, a.p + 1000 * bp - b.p)

MagSub(a, b) ==
    Borrowed(a, b,
             IF a.p < b.p THEN 1 ELSE 0,
             IF a.n - (IF a.p < b.p THEN 1 ELSE 0) < b.n THEN 1 ELSE 0)

Signed(neg, s) == IF Tracked(s) THEN Norm([s EXCEPT !.neg = neg]) ELSE s

DAdd(a, b) ==
    IF ~Tracked(a) \/ ~Tracked(b) THEN OutOfModel
    ELSE IF a.neg = b.neg THEN Signed(a.neg, MagAdd(a, b))
    ELSE IF MagLess(a, b) THEN Norm([MagSub(b, a) EXCEPT !.neg = b.neg])
    ELSE Norm([MagSub(a, b) EXCEPT !.neg = a.neg])

DSub(a, b) == IF Tracked(b) THEN DAdd(a, Neg(b)) ELSE OutOfModel

\* The value with the digits ds, of which the last k are fractional.
Scaled(neg, ds, k) == FromDigits(neg, ds, Len(ds) - k)

\* the product of two mantissas
MulMantissa(neg, ma, mb) ==
    IF ~ma.ok \/ ~mb.ok THEN OutOfModel
    ELSE IF ma.m # 0 /\ mb.m > MaxInt \div ma.m THEN OutOfModel
    ELSE Scaled(neg, ToDigits(ma.m * mb.m), ma.k + mb.k)

DMul(a, b) ==
    IF ~Tracked(a) \/ ~Tracked(b) THEN OutOfModel
    ELSE MulMantissa(a.neg # b.neg, Mantissa(a), Mantissa(b))

RECURSIVE QuotientDigits(_, _, _)
\* The next count digits of r / d, for 0 <= r < d.
QuotientDigits(r, d, count) ==
    IF count = 0 THEN <<>>
    ELSE <<(r * 10) \div d>> \o QuotientDigits((r * 10) % d, d, count - 1)

\* the quotient of two mantissas, by long division to 24 more digits
DivMantissa(neg, ma, mb) ==
    IF ~ma.ok \/ ~mb.ok \/ mb.m > MaxInt \div 10 THEN OutOfModel
    ELSE Scaled(neg,
                ToDigits(ma.m \div mb.m) \o QuotientDigits(ma.m % mb.m, mb.m, 24),
                24 + ma.k - mb.k)

\* a / b for b # 0, to 12 fractional digits
DDiv(a, b) ==
    IF ~Tracked(a) \/ ~Tracked(b) THEN OutOfModel
    ELSE DivMantissa(a.neg # b.neg, Mantissa(a), Mantissa(b))


\* ------------------------------------------------------------ libm
M_PI == Val(FALSE, 3, 141592653, 589)

M_E == Val(FALSE, 2, 718281828, 459)

\* M_PI / 2
M_PI_2 == Val(FALSE, 1, 570796326, 794)

Half == Val(FALSE, 0, 500000000, 0)

\* sin, cos, tan, asin, acos, atan, log10, log and sqrt of <math.h>, as
\* tables <<argument, result cut after 12 fractional digits>> of what the
\* library returns; the arguments are the ones listed, any other argument
\* is outside the model.
sinTable ==
    <<<<Zero, Val(FALSE, 0, 0, 0)>>,
      <<One, Val(FALSE, 0, 841470984, 807)>>,
      <<Neg(One), Val(TRUE, 0, 841470984, 807)>>,
      <<IntVal(2), Val(FALSE, 0, 909297426, 825)>>,
      <<Half, Val(FALSE, 0, 479425538, 604)>>,
      <<IntVal(4), Val(TRUE, 0, 756802495, 307)>>,
      <<IntVal(10), Val(TRUE, 0, 544021110, 889)>>,
      <<M_PI, Val(FALSE, 0, 0, 0)>>,
      <<M_E, Val(FALSE, 0, 410781290, 502)>>>>

cosTable ==
    <<<<Zero, Val(FALSE, 1, 0, 0)>>,
      <<One, Val(FALSE, 0, 540302305, 868)>>,
      <<Neg(One), Val(FALSE, 0, 540302305, 868)>>,
      <<IntVal(2), Val(TRUE, 0, 416146836, 547)>>,
      <<Half, Val(FALSE, 0, 877582561, 890)>>,
      <<IntVal(4), Val(TRUE, 0, 653643620, 863)>>,
      <<IntVal(10), Val(TRUE, 0, 839071529, 76)>>,
      <<M_PI, Val(TRUE, 1, 0, 0)>>,
      <<M_E, Val(TRUE, 0, 911733914, 786)>>>>

tanTable ==
    <<<<Zero, Val(FALSE, 0, 0, 0)>>,
      <<One, Val(FALSE, 1, 557407724, 654)>>,
      <<Neg(One), Val(TRUE, 1, 557407724, 654)>>,
      <<IntVal(2), Val(TRUE, 2, 185039863, 261)>>,
      <<Half, Val(FALSE, 0, 546302489, 843)>>,
      <<IntVal(4), Val(FALSE, 1, 157821282, 349)>>,
      <<IntVal(10), Val(FALSE, 0, 648360827, 459)>>,
      <<M_PI, Val(FALSE, 0, 0, 0)>>,
      <<M_E, Val(TRUE, 0, 450549534, 69)>>>>

asinTable ==
    <<<<Zero, Val(FALSE, 0, 0, 0)>>,
      <<One, Val(FALSE, 1, 570796326, 794)>>,
      <<Neg(One), Val(TRUE, 1, 570796326, 794)>>,
      <<Half, Val(FALSE, 0, 523598775, 598)>>>>

acosTable ==
    <<<<Zero, Val(FALSE, 1, 570796326, 794)>>,
      <<One, Val(FALSE, 0, 0, 0)>>,
      <<Neg(One), Val(FALSE, 3, 141592653, 589)>>,
      <<Half, Val(FALSE, 1, 47197551, 196)>>>>

atanTable ==
    <<<<Zero, Val(FALSE, 0, 0, 0)>>,
      <<One, Val(FALSE, 0, 785398163, 397)>>,
      <<Neg(One), Val(TRUE, 0, 785398163, 397)>>,
      <<IntVal(2), Val(FALSE, 1, 107148717, 794)>>,
      <<Half, Val(FALSE, 0, 463647609, 0)>>,
      <<IntVal(4), Val(FALSE, 1, 325817663, 668)>>,
      <<IntVal(10), Val(FALSE, 1, 471127674, 303)>>,
      <<M_PI, Val(FALSE, 1, 262627255, 678)>>,
      <<M_E, Val(FALSE, 1, 218282905, 17)>>>>

log10Table ==
    <<<<One, Val(FALSE, 0, 0, 0)>>,
      <<IntVal(2), Val(FALSE, 0, 301029995, 663)>>,
      <<Half, Val(TRUE, 0, 301029995, 663)>>,
      <<IntVal(4), Val(FALSE, 0, 602059991, 327)>>,
      <<IntVal(10), Val(FALSE, 1, 0, 0)>>,
      <<M_PI, Val(FALSE, 0, 497149872, 694)>>,
      <<M_E, Val(FALSE, 0, 434294481, 903)>>>>

logTable ==
    <<<<One, Val(FALSE, 0, 0, 0)>>,
      <<IntVal(2), Val(FALSE, 0, 693147180, 559)>>,
      <<Half, Val(TRUE, 0, 693147180, 559)>>,
      <<IntVal(4), Val(FALSE, 1, 386294361, 119)>>,
      <<IntVal(10), Val(FALSE, 2, 302585092, 994)>>,
      <<M_PI, Val(FALSE, 1, 144729885, 849)>>,
      <<M_E, Val(FALSE, 1, 0, 0)>>>>

sqrtTable ==
    <<<<Zero, Val(FALSE, 0, 0, 0)>>,
      <<One, Val(FALSE, 1, 0, 0)>>,
      <<IntVal(2), Val(FALSE, 1, 414213562, 373)>>,
      <<Half, Val(FALSE, 0, 707106781, 186)>>,
      <<IntVal(4), Val(FALSE, 2, 0, 0)>>,
      <<IntVal(10), Val(FALSE, 3, 162277660, 168)>>,
      <<M_PI, Val(FALSE, 1, 772453850, 905)>>,
      <<M_E, Val(FALSE, 1, 648721270, 700)>>>>


Lookup(table, a) ==
    IF \E i \in 1..Len(table) : table[i][1] = a
    THEN table[CHOOSE i \in 1..Len(table) : table[i][1] = a][2]
    ELSE OutOfModel

RECURSIVE Fmod(_, _)
\* fmod(x, y) for 0 <= x, 0 < y
Fmod(x, y) == IF MagLess(x, y) THEN x ELSE Fmod(MagSub(x, y), y)

\* fmod(fabs(a), M_PI) == M_PI / 2, for the arguments the model follows
TanUndefined(a) == Tracked(a) /\ a.w <= 100 /\ Fmod(Abs(a), M_PI) = M_PI_2

\* r * a when the product has at most 12 fractional digits
MulExact(r, a) ==
    IF ~Tracked(r) THEN OutOfModel
    ELSE IF Mantissa(r).k + Mantissa(a).k > 12 THEN OutOfModel
    ELSE DMul(r, a)

RECURSIVE PowNat(_, _)
\* a^e for an integer e >= 0, exact or outside the model
PowNat(a, e) ==
    IF e = 0 THEN One
    ELSE IF IsZero(a) \/ a = One THEN a
    ELSE IF a = Neg(One) THEN (IF e % 2 = 0 THEN One ELSE a)
    ELSE IF e > 40 THEN OutOfModel
    ELSE MulExact(PowNat(a, e - 1), a)

\* pow(a, b)
Pow(a, b) ==
    IF ~Tracked(a) \/ ~Tracked(b) THEN OutOfModel
    ELSE IF IsZero(b) \/ a = One THEN One
    ELSE IF ~IsIntegral(b) THEN (IF IsZero(a) /\ ~b.neg THEN Zero ELSE OutOfModel)
    ELSE IF ~b.neg THEN PowNat(a, b.w)
    ELSE IF IsZero(a) THEN OutOfModel
    ELSE DDiv(One, PowNat(a, b.w))

Ret(value, error_code) == [value |-> value, error_code |-> error_code]

RECURSIVE FactorialLoop(_, _)
\* result *= i for i = 1 .. n
FactorialLoop(i, n) ==
    IF i > n THEN 1 ELSE i * FactorialLoop(i + 1, n)

\* factorial(n, &error_code): [value, error_code]; 13! and above do not fit
\* the model's integers. In n != (int)n the conversion of a value above
\* INT_MAX has undefined behaviour; with n = INT_MAX the test i <= (int)n
\* of the loop never fails and i++ overflows the int i, which has
\* undefined behaviour as well.
factorial(n) ==
    IF LtZero(n) THEN Ret(OutOfModel, FACTORIAL_ERROR)
    ELSE IF n = BeyondInt \/ n = AtIntMax THEN Ret(Indeterminate, SUCCESS)
    ELSE IF ~IsIntegral(n) THEN Ret(OutOfModel, FACTORIAL_ERROR)
    ELSE IF IsZero(n) \/ n = One THEN Ret(One, SUCCESS)
    ELSE IF n.w > 12 THEN Ret(OutOfModel, SUCCESS)
    ELSE Ret(IntVal(FactorialLoop(1, n.w)), SUCCESS)

\* ------------------------------------------------------------ operators
\* if (*error_code != SUCCESS) return 0; result = round_to_9_decimals(result)
Rounded(f) ==
    IF f.error_code # SUCCESS THEN Ret(Zero, f.error_code)
    ELSE IF f.value = Indeterminate THEN f
    ELSE Ret(round_to_9_decimals(f.value), SUCCESS)

\* apply_operator(op, a, b, &error_code) entered with *error_code ==
\* SUCCESS: [value, error_code].
apply_operator(op, a, b) ==
    IF op = tSqrt THEN
        IF LtZero(a) THEN Ret(Zero, SQUARE_ROOT_INVALID_OPERATOR)
        ELSE Ret(round_to_9_decimals(Lookup(sqrtTable, a)), SUCCESS)
    ELSE IF op = tSin THEN Ret(round_to_9_decimals(Lookup(sinTable, a)), SUCCESS)
    ELSE IF op = tCos THEN Ret(round_to_9_decimals(Lookup(cosTable, a)), SUCCESS)
    ELSE IF op = tTan THEN
        IF TanUndefined(a) THEN Ret(Zero, TAN_INVALID_OPERATOR)
        ELSE Ret(round_to_9_decimals(Lookup(tanTable, a)), SUCCESS)
    ELSE IF op = tArcsin THEN
        IF Less(a, Neg(One)) \/ Less(One, a) THEN Ret(Zero, INVALID_TRIG_OPERATOR)
        ELSE Ret(round_to_9_decimals(Lookup(asinTable, a)), SUCCESS)
    ELSE IF op = tArccos THEN
        IF Less(a, Neg(One)) \/ Less(One, a) THEN Ret(Zero, INVALID_TRIG_OPERATOR)
        ELSE Ret(round_to_9_decimals(Lookup(acosTable, a)), SUCCESS)
    ELSE IF op = tArctan THEN Ret(round_to_9_decimals(Lookup(atanTable, a)), SUCCESS)
    ELSE IF op = tLog THEN
        IF LeZero(a) THEN Ret(Zero, LOG_ERROR)
        ELSE Ret(round_to_9_decimals(Lookup(log10Table, a)), SUCCESS)
    ELSE IF op = tLn THEN
        IF LeZero(a) THEN Ret(Zero, LN_ERROR)
        ELSE Ret(round_to_9_decimals(Lookup(logTable, a)), SUCCESS)
    ELSE IF Len(op) = 1 THEN
        CASE op[1] = "+" -> Ret(round_to_9_decimals(DAdd(a, b)), SUCCESS)
          [] op[1] = "-" -> Ret(round_to_9_decimals(DSub(a, b)), SUCCESS)
          [] op[1] = "*" -> Ret(round_to_9_decimals(DMul(a, b)), SUCCESS)
          [] op[1] = "/" ->
                IF IsZero(b) THEN Ret(Zero, DIVISION_BY_ZERO)
                ELSE Ret(round_to_9_decimals(DDiv(a, b)), SUCCESS)
          [] op[1] = "^" -> Ret(round_to_9_decimals(Pow(a, b)), SUCCESS)
          [] op[1] = "!" ->
                IF ~IsZero(b) THEN Ret(Zero, INVALID_OPERATOR)
                ELSE Rounded(factorial(a))
          [] OTHER -> Ret(Zero, INVALID_OPERATOR)
    \* "ans" alone comes here: result is rounded before anything was assigned
    \* to it, and the rounded value is dropped; whatever the read gives, the
    \* function sets INVALID_OPERATOR and returns 0
    ELSE Ret(Zero, INVALID_OPERATOR)


\* ------------------------------------------------------------ classification
\* is_operator without the reserved name "ans"
is_operator_without_ans(token) ==
    token \in {tPlus, tMinus, tTimes, tDivide, tPower, tFact, tSqrt, tSin, tCos, tTan,
               tArcsin, tArccos, tArctan, tLog, tLn}

\* is_operator(token)
is_operator(token) ==
    \/ token = tPlus
    \/ token = tMinus
    \/ token = tTimes
    \/ token = tDivide
    \/ token = tPower
    \/ token = tFact
    \/ token = tSqrt
    \/ token = tSin
    \/ token = tCos
    \/ token = tTan
    \/ token = tArcsin
    \/ token = tArccos
    \/ token = tArctan
    \/ token = tLog
    \/ token = tLn
    \/ token = tAns

RECURSIVE SkipWhile(_, _, _)
\* The first index >= i of s whose character is not of the class (digits when
\* digits, white space otherwise), Len(s) + 1 when there is none.
SkipWhile(s, i, digits) ==
    IF i <= Len(s) /\ (IF digits THEN IsDigit(s[i]) ELSE IsSpace(s[i]))
    THEN SkipWhile(s, i + 1, digits)
    ELSE i

\* the digits token[lo..hi]
DigitsOf(token, lo, hi) ==
    [k \in 1..Max(hi - lo + 1, 0) |-> DigitVal(token[lo + k - 1])]

\* strtod, last stage: the mantissa is token[i1..i2-1] and token[i2+1..i3-1],
\* the conversion ends at index end and the exponent is exp
StrtodValue(token, neg, i1, i2, i3, end, exp) ==
    [end |-> end,
     value |-> FromDigits(neg, DigitsOf(token, i1, i2 - 1) \o DigitsOf(token, i2 + 1, i3 - 1),
                          (i2 - i1) + exp)]

\* strtod, the exponent: its digits are token[j1..j2-1]; without a digit
\* the "e" is not part of the number
StrtodExponent(token, neg, i1, i2, i3, j1, j2) ==
    IF j2 <= j1 THEN StrtodValue(token, neg, i1, i2, i3, i3, 0)
    ELSE IF j2 - j1 > 3 THEN [end |-> j2, value |-> OutOfModel]
    ELSE IF token[j1 - 1] = "-"
         THEN StrtodValue(token, neg, i1, i2, i3, j2, -NatOf(DigitsOf(token, j1, j2 - 1), 1, j2 - j1))
    ELSE StrtodValue(token, neg, i1, i2, i3, j2, NatOf(DigitsOf(token, j1, j2 - 1), 1, j2 - j1))

\* the index after an optional sign at index j
AfterSign(token, j) == IF j <= Len(token) /\ token[j] \in {"+", "-"} THEN j + 1 ELSE j

\* strtod, after the mantissa token[i1..i3-1] with its point (if any) at i2:
\* no digit at all is no conversion, endptr is the token itself
StrtodMantissa(token, neg, i1, i2, i3) ==
    IF (i2 - i1) + Max(i3 - i2 - 1, 0) = 0 THEN [end |-> 1, value |-> Zero]
    ELSE IF i3 <= Len(token) /\ token[i3] \in {"e", "E"}
         THEN StrtodExponent(token, neg, i1, i2, i3, AfterSign(token, i3 + 1),
                             SkipWhile(token, AfterSign(token, i3 + 1), TRUE))
    ELSE StrtodValue(token, neg, i1, i2, i3, i3, 0)

\* strtod, the integer digits token[i1..i2-1] and the fraction after them
StrtodDigits(token, neg, i1, i2) ==
    StrtodMantissa(token, neg, i1, i2,
                   IF i2 <= Len(token) /\ token[i2] = "."
                   THEN SkipWhile(token, i2 + 1, TRUE) ELSE i2)

\* strtod, after the white space: the sign is at i0, if there is one
StrtodSign(token, i0) ==
    StrtodDigits(token, i0 <= Len(token) /\ token[i0] = "-",
                 AfterSign(token, i0), SkipWhile(token, AfterSign(token, i0), TRUE))

\* strtod(token, &endptr) on decimal literals (white space, sign, digits with
\* an optional point, optional exponent): end is the index of *endptr (1 is
\* the token's first character, Len + 1 its terminator), value the result.
\* The hexadecimal, inf and nan forms are not modelled: no token of the
\* model starts with them.
strtod(token) == StrtodSign(token, SkipWhile(token, 1, FALSE))

\* *endptr == '\0' || (*endptr == '\n' && *(endptr + 1) == '\0')
AtEnd(token, endptr) ==
    \/ endptr = Len(token) + 1
    \/ endptr = Len(token) /\ token[endptr] = "\n"

\* is_number(token)
is_number(token) == AtEnd(token, strtod(token).end)

\* atof(token)
atof(token) == strtod(token).value

\* ------------------------------------------------------------ variable table
Variable(name, value) == [name |-> name, value |-> value]

\* A slot of the static array before anything is stored in it.
NoVariable == Variable(<<>>, Zero)

\* init_default_variables without the reset of the count: the two entries
\* are appended to whatever the table holds
init_default_variables_appending(table, count) ==
    [variables |-> [table EXCEPT ![count] = Variable(tPi, M_PI),
                                 ![count + 1] = Variable(tE, M_E)],
     variable_count |-> count + 1 + 1]

\* init_default_variables(): the table and the count it leaves, as
\* [variables, variable_count].  The count is reset to 0 before the two
\* appends, so the table it finds does not matter beyond its other slots.
init_default_variables(table, count) ==
    [variables |-> [table EXCEPT ![0] = Variable(tPi, M_PI), ![0 + 1] = Variable(tE, M_E)],
     variable_count |-> 0 + 1 + 1]

\* get_variable_value(name, &error_code): the first match among the first
\* count entries, UNDEFINED_VARIABLE and 0.0 when there is none.
get_variable_value(name, table, count) ==
    IF \A k \in 0..(count - 1) : table[k].name # name THEN Ret(Zero, UNDEFINED_VARIABLE)
    ELSE Ret(table[CHOOSE k \in 0..(count - 1) :
                       /\ table[k].name = name
                       /\ \A j \in 0..(k - 1) : table[j].name # name].value,
             SUCCESS)


\* ------------------------------------------------------------ the inputs
\* A ReversePolishExpression: null is a NULL rpn or a NULL rpn->expression;
\* expression[k] is head[k + 1] for k < Len(head) and fill from there on, so
\* that a sequence of 1001 tokens is one small record.
Rpn(head, fill, length) ==
    [null |-> FALSE, head |-> head, fill |-> fill, length |-> length]

Short(tokens) == Rpn(tokens, <<>>, Len(tokens))

NullRpn == [null |-> TRUE, head |-> <<>>, fill |-> <<>>, length |-> 0]

\* rpn->expression[k], for 0 <= k < rpn->length
TokenAt(r, k) == IF k < Len(r.head) THEN r.head[k + 1] ELSE r.fill

n0 == <<"0">>
n1 == <<"1">>
n2 == <<"2">>
n3 == <<"3">>
n4 == <<"4">>
n5 == <<"5">>
nMinus1 == <<"-", "1">>
nHalf == <<"0", ".", "5">>
\* a whole number above INT_MAX
nBeyond == <<"3", "0", "0", "0", "0", "0", "0", "0", "0", "0">>
\* INT_MAX
nIntMax == <<"2", "1", "4", "7", "4", "8", "3", "6", "4", "7">>

\* a token that is neither an operator nor a number nor a registered name
tUnknown == <<"%", "%">>

Operators ==
    {tPlus, tMinus, tTimes, tDivide, tPower, tFact, tSqrt, tSin, tCos, tTan,
     tArcsin, tArccos, tArctan, tLog, tLn, tAns}

\* the operand tokens of the probe inputs
OperandTokens == {n0, n1, n2, n5, nMinus1, nHalf, tPi, tE, tUnknown}

\* the alphabet of the exhaustively enumerated inputs
CoreTokens == {n1, n2, n0, tPi, tUnknown, tPlus, tMinus, tDivide, tFact, tSqrt}

SeqsUpTo(S, len) == UNION {[1..k -> S] : k \in 0..len}

\* every token sequence over CoreTokens of at most MaxLen tokens
CoreInputs == {Short(t) : t \in SeqsUpTo(CoreTokens, MaxLen)}

\* at most MaxOperands operand tokens followed by one operator token
ProbeInputs ==
    {Short(t \o <<op>>) : t \in SeqsUpTo(OperandTokens, MaxOperands), op \in Operators}

\* sequences of 100, 101, 1000 and 1001 tokens that repeat one token after
\* a short head
LongLengths ==
    {MAX_STACK_SIZE, MAX_STACK_SIZE + 1, MAX_EXPR_LENGTH, MAX_EXPR_LENGTH + 1}

LongInputs ==
    {Rpn(h, f, len) : h \in {<<>>, <<n1>>, <<tE, tLn>>},
                      f \in {n1, tPi, tFact, tPlus},
                      len \in LongLengths}

\* a number above INT_MAX alone, under the factorial sign and under a
\* name, and INT_MAX alone and under the factorial sign
WideInputs ==
    {Short(<<nBeyond>>), Short(<<nBeyond, tFact>>), Short(<<nBeyond, tArctan>>),
     Short(<<nIntMax>>), Short(<<nIntMax, tFact>>)}

\* the empty token, a newline alone, 1 with a newline and with two, a
\* space alone, and 1 followed by a letter
tEmpty == <<>>

tNewline == <<"\n">>

n1Newline == <<"1", "\n">>

n1Newlines == <<"1", "\n", "\n">>

tSpace == <<" ">>

n1x == <<"1", "x">>

\* each of them alone, and two empty tokens under +
LiteralInputs ==
    {Short(<<t>>) : t \in {tEmpty, tNewline, n1Newline, n1Newlines, tSpace, n1x}}
        \cup {Short(<<tEmpty, tEmpty, tPlus>>)}

\* a token of n letters
LongToken(n) == [k \in 1..n |-> "x"]

\* one token of 999, of 1000 and of 1001 letters
LongTokenInputs ==
    {Short(<<LongToken(n)>>) :
        n \in {MAX_EXPR_LENGTH - 1, MAX_EXPR_LENGTH, MAX_EXPR_LENGTH + 1}}

\* the operators that take two operands
BinarySigns == {tPlus, tMinus, tTimes, tDivide, tPower}

\* The expressions of two and of three operands under the binary signs, in
\* both shapes, (1 + 2) * (3 + 4) and that to the power of 2, and 1 with
\* 2 + 3 under the factorial sign and under sqrt.
InfixInputs ==
    {Short(<<n2, n3, p>>) : p \in BinarySigns}
        \cup {Short(<<n2, n3, p, n4, q>>) : p \in BinarySigns, q \in BinarySigns}
        \cup {Short(<<n2, n3, n4, p, q>>) : p \in BinarySigns, q \in BinarySigns}
        \cup {Short(<<n1, n2, tPlus, n3, n4, tPlus, tTimes>>),
              Short(<<n1, n2, tPlus, n3, n4, tPlus, tTimes, n2, tPower>>),
              Short(<<n1, n2, n3, tPlus, tFact>>),
              Short(<<n1, n2, n3, tPlus, tSqrt>>)}

Inputs ==
    {NullRpn} \cup CoreInputs \cup ProbeInputs \cup LongInputs \cup WideInputs
        \cup InfixInputs \cup LiteralInputs \cup LongTokenInputs

\* ------------------------------------------------------------ the state
VARIABLES
    variables,        \* static Variable variables[MAX_VARIABLES]
    variable_count,   \* static int variable_count
    pc,               \* "idle", "eval", "conv", "done", "ub", "ubint", "crashed",
                      \* "outside"
    call,             \* the entry point running or just returned
    rpn,              \* its argument
    i,                \* the index of the token loop
    stack,            \* stack[0 .. stack_top], stack_top = Len(stack) - 1
    result,           \* the CalculationResult of evaluate_rpn
    conversion,       \* the ConversionResult of rpn_to_infix
    earlier,          \* an earlier evaluate_rpn call: <<[rpn, result]>>, or <<>>
    heap,             \* the strings rpn_to_infix has allocated
    threads           \* the calls of two threads that run at the same time

vars ==
    <<variables, variable_count, pc, call, rpn, i, stack, result, conversion,
      earlier, heap, threads>>

Conv(expression, error_code) ==
    [expression |-> expression, error_code |-> error_code]

\* The heap as rpn_to_infix uses it: live is the set of the blocks that
\* are allocated, numbered in the order of their allocation since the heap
\* was last empty, used the number of the next one; held[k] is the block
\* that stack[k - 1] points to; fault is whether a block has been freed or
\* read that was not live.
Heap(live, used, held, fault) ==
    [live |-> live, used |-> used, held |-> held, fault |-> fault]

EmptyHeap == Heap({}, 0, <<>>, FALSE)

\* The two threads, and a call of one of them: at is where the call is,
\* name the token it looks up, n the number of default variables it has
\* appended, c the variable_count it has read for the append under way, k
\* the index of the lookup loop, ret what the lookup returns; calls is the
\* number of calls the thread has made.
Threads == {1, 2}

Thread(at, name, n, c, k, ret, calls) ==
    [at |-> at, name |-> name, n |-> n, c |-> c, k |-> k, ret |-> ret, calls |-> calls]

IdleThread == Thread("idle", <<>>, 0, 0, 0, Ret(Zero, SUCCESS), 0)

Init ==
    /\ heap = EmptyHeap
    /\ threads = [t \in Threads |-> IdleThread]
    /\ variables = [k \in 0..(MAX_VARIABLES - 1) |-> NoVariable]
    /\ variable_count = 0
    /\ pc = "idle"
    /\ call = "none"
    /\ rpn = NullRpn
    /\ i = 0
    /\ stack = <<>>
    /\ result = Ret(Zero, SUCCESS)
    /\ conversion = Conv(<<>>, SUCCESS)
    /\ earlier = <<>>

\* ------------------------------------------------------------ evaluate_rpn
\* What the processing of one token does: "next" goes on with the loop,
\* "return" leaves the function with error_code, "ub" is a write past the
\* end of the stack array, "ubint" a conversion to int of a value no int
\* has, "outside" a value the model does not follow.
Outcome(kind, stk, error_code) ==
    [kind |-> kind, stack |-> stk, error_code |-> error_code]

Pop(stk) == SubSeq(stk, 1, Len(stk) - 1)

Top(stk) == stk[Len(stk)]

\* IsUnary without the test of '!': the factorial sign would pop two values
\* and hand both to apply_operator.
IsUnaryNamesOnly(token) ==
    token \in {tSqrt, tSin, tCos, tTan, tArcsin, tArccos, tArctan, tLog, tLn}

\* the tokens that pop one value
IsUnary(token) ==
    \/ token[1] = "!"
    \/ token \in {tSqrt, tSin, tCos, tTan, tArcsin, tArccos, tArctan, tLog, tLn}

\* The push of the value apply_operator returned, on what is left of the
\* stack: an error returns at once.
PushResult(rest, r) ==
    IF r.error_code # SUCCESS THEN Outcome("return", rest, r.error_code)
    ELSE IF r.value = Indeterminate THEN Outcome("ubint", rest, SUCCESS)
    ELSE IF ~Tracked(r.value) THEN Outcome("outside", rest, SUCCESS)
    ELSE Outcome("next", Append(rest, r.value), SUCCESS)

\* EvalOperator with one error for every stack that is too shallow
EvalOperatorOneError(token, stk) ==
    IF IsUnary(token)
    THEN IF Len(stk) - 1 < 0 THEN Outcome("return", stk, STACK_UNDERFLOW)
         ELSE PushResult(Pop(stk), apply_operator(token, Top(stk), Zero))
    ELSE IF Len(stk) - 1 < 1 THEN Outcome("return", stk, STACK_UNDERFLOW)
         ELSE PushResult(Pop(Pop(stk)), apply_operator(token, Top(Pop(stk)), Top(stk)))

\* EvalOperator with the two popped values handed over in the order of
\* their pops: the top of the stack as a, the value under it as b
EvalOperatorPopOrder(token, stk) ==
    IF IsUnary(token)
    THEN IF Len(stk) - 1 < 0 THEN Outcome("return", stk, INVALID_OPERATOR)
         ELSE PushResult(Pop(stk), apply_operator(token, Top(stk), Zero))
    ELSE IF Len(stk) - 1 < 1 THEN Outcome("return", stk, STACK_UNDERFLOW)
         ELSE PushResult(Pop(Pop(stk)), apply_operator(token, Top(stk), Top(Pop(stk))))

\* an operator token
EvalOperator(token, stk) ==
    IF IsUnary(token)
    THEN IF Len(stk) - 1 < 0 THEN Outcome("return", stk, INVALID_OPERATOR)
         ELSE PushResult(Pop(stk), apply_operator(token, Top(stk), Zero))
    ELSE IF Len(stk) - 1 < 1 THEN Outcome("return", stk, STACK_UNDERFLOW)
         ELSE PushResult(Pop(Pop(stk)), apply_operator(token, Top(Pop(stk)), Top(stk)))

\* the push of the value of a number token
PushNumber(value, stk, length) ==
    IF ~Tracked(value) /\ value \notin {BeyondInt, AtIntMax}
    THEN Outcome("outside", stk, SUCCESS)
    ELSE IF length > MAX_EXPR_LENGTH
         THEN Outcome("return", Append(stk, value), EXPR_LENGHT_MAXIMUM)
    ELSE Outcome("next", Append(stk, value), SUCCESS)

\* a number token: stack_top++ comes first, so the test reads the new top,
\* Len(stk); nothing is written when it fails
EvalNumber(token, stk, length) ==
    IF Len(stk) >= MAX_STACK_SIZE THEN Outcome("return", stk, STACK_MAXIMUM)
    ELSE PushNumber(atof(token), stk, length)

\* the push of the value get_variable_value returned: stack[++stack_top]
\* is written without a look at stack_top
PushVariable(v, stk) ==
    IF v.error_code # SUCCESS THEN Outcome("return", stk, v.error_code)
    ELSE IF Len(stk) >= MAX_STACK_SIZE THEN Outcome("ub", Append(stk, v.value), SUCCESS)
    ELSE Outcome("next", Append(stk, v.value), SUCCESS)

\* any other token: a variable
EvalVariable(token, stk, table, count) ==
    PushVariable(get_variable_value(token, table, count), stk)

\* EvalToken with the operator branch last: whatever is not a number is
\* taken for an operator
EvalTokenOperatorLast(token, stk, length, table, count) ==
    IF is_number(token) THEN EvalNumber(token, stk, length)
    ELSE EvalOperator(token, stk)

\* the body of the token loop
EvalToken(token, stk, length, table, count) ==
    IF is_operator(token) THEN EvalOperator(token, stk)
    ELSE IF is_number(token) THEN EvalNumber(token, stk, length)
    ELSE EvalVariable(token, stk, table, count)

\* EvalFinal that returns the top of any stack that is not empty
EvalFinalTop(stk) ==
    IF Len(stk) - 1 < 0 THEN Ret(Zero, STACK_UNDERFLOW)
    ELSE Ret(Top(stk), SUCCESS)

\* after the loop
EvalFinal(stk) ==
    IF Len(stk) - 1 # 0 THEN Ret(Zero, STACK_UNDERFLOW)
    ELSE Ret(stk[1], SUCCESS)

\* EvalCall that fills the variable table before it looks at its argument
EvalCallSeedFirst(r) ==
    /\ call' = "evaluate"
    /\ rpn' = r
    /\ i' = 0
    /\ stack' = <<>>
    /\ result' = Ret(Zero, IF r.null THEN MEMORY_ERROR ELSE SUCCESS)
    /\ pc' = IF r.null THEN "done" ELSE "eval"
    /\ variables' = init_default_variables(variables, variable_count).variables
    /\ variable_count' = init_default_variables(variables, variable_count).variable_count
    /\ UNCHANGED <<conversion, earlier, heap, threads>>

\* evaluate_rpn up to its loop
EvalCall(r) ==
    /\ call' = "evaluate"
    /\ rpn' = r
    /\ i' = 0
    /\ stack' = <<>>
    /\ IF r.null
       THEN /\ result' = Ret(Zero, MEMORY_ERROR)
            /\ pc' = "done"
            /\ UNCHANGED <<variables, variable_count>>
       ELSE /\ result' = Ret(Zero, SUCCESS)
            /\ pc' = "eval"
            /\ variables' = init_default_variables(variables, variable_count).variables
            /\ variable_count' =
                   init_default_variables(variables, variable_count).variable_count
    /\ UNCHANGED <<conversion, earlier, heap, threads>>

\* what a turn of the loop leaves, o being the outcome of its token
EvalTurn(o) ==
    /\ stack' = o.stack
    /\ pc' = CASE o.kind = "next" -> "eval"
               [] o.kind = "return" -> "done"
               [] OTHER -> o.kind
    /\ i' = IF o.kind = "next" THEN i + 1 ELSE i
    /\ result' = [result EXCEPT !.error_code = o.error_code]

\* one turn of the loop
EvalStep ==
    /\ pc = "eval"
    /\ i < rpn.length
    /\ EvalTurn(EvalToken(TokenAt(rpn, i), stack, rpn.length, variables, variable_count))
    /\ UNCHANGED <<variables, variable_count, call, rpn, conversion, earlier, heap,
                   threads>>

\* the loop has ended
EvalFinish ==
    /\ pc = "eval"
    /\ i >= rpn.length
    /\ result' = EvalFinal(stack)
    /\ pc' = "done"
    /\ UNCHANGED <<variables, variable_count, call, rpn, i, stack, conversion, earlier,
                   heap, threads>>


\* ------------------------------------------------------------ rpn_to_infix
\* The multi-character constant that needs_parentheses compares op with for
\* the square root sign: a value no char has.
SquareRootSign == "E2 88 9A"

\* needs_parentheses that wraps every operand of more than one character
\* which is not enclosed already, whatever the operator
needs_parentheses_any_operator(expr, op) ==
    IF Len(expr) <= 1 THEN FALSE
    ELSE IF expr[1] = "(" /\ expr[Len(expr)] = ")" THEN FALSE
    ELSE TRUE

\* needs_parentheses(expr, op)
needs_parentheses(expr, op) ==
    IF Len(expr) <= 1 THEN FALSE
    ELSE IF expr[1] = "(" /\ expr[Len(expr)] = ")" THEN FALSE
    ELSE \E k \in 1..Len(expr) :
            \/ op = "!" \/ op = SquareRootSign
            \/ op \in {"*", "/"} /\ expr[k] \in {"+", "-"}
            \/ op = "^" /\ expr[k] \in {"*", "/"}

Paren(need, expr) == IF need THEN <<"(">> \o expr \o <<")">> ELSE expr

\* snprintf(expr, size, ...): at most size - 1 characters of the text
snprintf(size, text) == SubSeq(text, 1, Min(Len(text), size - 1))

\* Combine into a buffer with room for the two operands, the sign and its
\* two spaces, and the terminator, but none for parentheses
CombineTight(token, a, b) ==
    snprintf(Len(a) + Len(b) + 4,
             Paren(needs_parentheses(a, token[1]), a) \o <<" ", token[1], " ">>
                 \o Paren(needs_parentheses(b, token[1]), b))

\* the combined expression of an operator token, as the call of snprintf
\* writes it into the new_len bytes allocated for it
Combine(token, a, b) ==
    snprintf(Len(a) + Len(b) + 10,
             Paren(needs_parentheses(a, token[1]), a) \o <<" ", token[1], " ">>
                 \o Paren(needs_parentheses(b, token[1]), b))

\* malloc(...) that returns memory
Allocated(h) == [h EXCEPT !.live = @ \cup {h.used}, !.used = @ + 1]

\* free that gives nothing back
free_nothing(h, p) == h

\* free(p)
free(h, p) ==
    IF p \notin h.live THEN [h EXCEPT !.fault = TRUE]
    ELSE [h EXCEPT !.live = @ \ {p}, !.used = IF h.live = {p} THEN 0 ELSE @]

\* a read of the string p points to: strlen, printf, snprintf, strncpy
ReadString(h, p) == IF p \in h.live THEN h ELSE [h EXCEPT !.fault = TRUE]

RECURSIVE FreeStack(_)
\* while (stack_top >= 0) free(stack[stack_top--])
FreeStack(h) ==
    IF h.held = <<>> THEN h
    ELSE FreeStack(free([h EXCEPT !.held = Pop(@)], Top(h.held)))

\* expr = malloc(strlen(token) + 1); strcpy(expr, token);
\* stack[++stack_top] = expr
PushCopy(h) == [Allocated(h) EXCEPT !.held = Append(@, h.used)]

\* b = stack[stack_top--]; a = stack[stack_top--]; printf and strlen read
\* both
PopOperands(h, a, b) == ReadString(ReadString([h EXCEPT !.held = Pop(Pop(@))], a), b)

\* the malloc of the combined expression has failed: free(a); free(b);
\* then the rest of the stack
CombineFailed(h, a, b) == FreeStack(free(free(PopOperands(h, a, b), a), b))

\* expr = malloc(new_len); snprintf reads a and b; free(a); free(b);
\* stack[++stack_top] = expr
Combined(h, a, b) ==
    [free(free(ReadString(ReadString(Allocated(PopOperands(h, a, b)), a), b), a), b)
        EXCEPT !.held = Append(@, h.used)]

\* what the body of the token loop does to the heap
ConvHeap(token, h, mallocOk) ==
    IF ~is_operator(token)
    THEN IF ~mallocOk THEN FreeStack(h) ELSE PushCopy(h)
    ELSE IF Len(h.held) - 1 < 1 THEN FreeStack(h)
         ELSE IF ~mallocOk THEN CombineFailed(h, Top(Pop(h.held)), Top(h.held))
         ELSE Combined(h, Top(Pop(h.held)), Top(h.held))

\* after the loop: the stack is freed when its depth is wrong; otherwise
\* strncpy reads stack[0] and free(stack[0]) follows
ConvFinalHeap(h) ==
    IF Len(h.held) - 1 # 0 THEN FreeStack(h)
    ELSE free(ReadString(h, h.held[1]), h.held[1])

\* The body of the token loop; mallocOk is whether its malloc returns
\* memory.  Every error path frees the whole stack.
ConvToken(token, stk, mallocOk) ==
    IF ~is_operator(token)
    THEN IF ~mallocOk THEN Outcome("return", <<>>, MEMORY_ERROR)
         ELSE IF Len(stk) >= MAX_STACK_SIZE
              THEN Outcome("ub", Append(stk, token), SUCCESS)
         ELSE Outcome("next", Append(stk, token), SUCCESS)
    ELSE IF Len(stk) - 1 < 1 THEN Outcome("return", <<>>, STACK_UNDERFLOW)
         ELSE IF ~mallocOk THEN Outcome("return", <<>>, MEMORY_ERROR)
         ELSE Outcome("next",
                      Append(Pop(Pop(stk)), Combine(token, Top(Pop(stk)), Top(stk))),
                      SUCCESS)

\* ConvFinal that copies the whole expression, as strcpy would
ConvFinalWhole(stk) ==
    IF Len(stk) - 1 # 0
    THEN [stack |-> <<>>, conversion |-> Conv(<<>>, STACK_UNDERFLOW)]
    ELSE [stack |-> stk, conversion |-> Conv(stk[1], SUCCESS)]

\* after the loop: [stack, conversion]
ConvFinal(stk) ==
    IF Len(stk) - 1 # 0
    THEN [stack |-> <<>>, conversion |-> Conv(<<>>, STACK_UNDERFLOW)]
    ELSE [stack |-> stk,
          conversion |->
              Conv(SubSeq(stk[1], 1, Min(Len(stk[1]), MAX_EXPR_LENGTH - 1)), SUCCESS)]

\* ConvCall that seeds the variable table as evaluate_rpn does
ConvCallSeeding(r) ==
    /\ call' = "convert"
    /\ rpn' = r
    /\ i' = 0
    /\ stack' = <<>>
    /\ IF r.null
       THEN /\ conversion' = Conv(<<>>, MEMORY_ERROR)
            /\ pc' = "done"
            /\ UNCHANGED <<variables, variable_count>>
       ELSE /\ conversion' = Conv(<<>>, SUCCESS)
            /\ pc' = "conv"
            /\ variables' = init_default_variables(variables, variable_count).variables
            /\ variable_count' =
                   init_default_variables(variables, variable_count).variable_count
    /\ heap' = [heap EXCEPT !.held = <<>>]
    /\ UNCHANGED <<result, earlier, threads>>

\* rpn_to_infix up to its loop
ConvCall(r) ==
    /\ call' = "convert"
    /\ rpn' = r
    /\ i' = 0
    /\ stack' = <<>>
    /\ IF r.null
       THEN conversion' = Conv(<<>>, MEMORY_ERROR) /\ pc' = "done"
       ELSE conversion' = Conv(<<>>, SUCCESS) /\ pc' = "conv"
    /\ heap' = [heap EXCEPT !.held = <<>>]
    /\ UNCHANGED <<variables, variable_count, result, earlier, threads>>

\* what a turn of the loop leaves, o being the outcome of its token
ConvTurn(o) ==
    /\ stack' = o.stack
    /\ pc' = CASE o.kind = "next" -> "conv"
               [] o.kind = "return" -> "done"
               [] OTHER -> o.kind
    /\ i' = IF o.kind = "next" THEN i + 1 ELSE i
    /\ conversion' = [conversion EXCEPT !.error_code = o.error_code]

\* one turn of the loop
ConvStep ==
    /\ pc = "conv"
    /\ i < rpn.length
    /\ \E mallocOk \in BOOLEAN :
        /\ ConvTurn(ConvToken(TokenAt(rpn, i), stack, mallocOk))
        /\ heap' = ConvHeap(TokenAt(rpn, i), heap, mallocOk)
    /\ UNCHANGED <<variables, variable_count, call, rpn, result, earlier, threads>>

\* what the end of the function leaves, f being ConvFinal of the stack
ConvEnd(f) ==
    /\ stack' = f.stack
    /\ conversion' = f.conversion

\* the loop has ended
ConvFinish ==
    /\ pc = "conv"
    /\ i >= rpn.length
    /\ ConvEnd(ConvFinal(stack))
    /\ heap' = ConvFinalHeap(heap)
    /\ pc' = "done"
    /\ UNCHANGED <<variables, variable_count, call, rpn, i, result, earlier, threads>>

\* ------------------------------------------------------------ the rest
\* After a write past the end of the stack array, and after a conversion
\* to int of a value no int has, the behaviour is undefined: the call may
\* return any result (101 tokens "pi" give the value of pi with
\* STACK_UNDERFLOW in a build without optimisation, 0.0 with
\* STACK_UNDERFLOW in an optimised one; "3000000000" "!" gives 0.0 with
\* FACTORIAL_ERROR in both) ...
Undefined ==
    /\ pc \in {"ub", "ubint"}
    /\ pc' = "done"
    /\ IF call = "evaluate"
       THEN /\ \E v \in {Zero, M_PI}, e \in ErrorCodes : result' = Ret(v, e)
            /\ UNCHANGED conversion
       ELSE /\ \E e \in ErrorCodes : conversion' = Conv(<<>>, e)
            /\ UNCHANGED result
    /\ heap' = IF call = "convert" THEN FreeStack(heap) ELSE heap
    /\ UNCHANGED <<variables, variable_count, call, rpn, i, stack, earlier, threads>>

\* ... or the process may die, or the call may never return (the loop of
\* factorial does not end for 2147483647 in a build without optimisation).
Crash ==
    /\ pc \in {"ub", "ubint"}
    /\ pc' = "crashed"
    /\ UNCHANGED <<variables, variable_count, call, rpn, i, stack, result,
                   conversion, earlier, heap, threads>>

\* The locals of a call are gone when it has returned.
Reset ==
    /\ pc' = "idle"
    /\ call' = "none"
    /\ rpn' = NullRpn
    /\ i' = 0
    /\ stack' = <<>>
    /\ result' = Ret(Zero, SUCCESS)
    /\ conversion' = Conv(<<>>, SUCCESS)
    /\ heap' = [heap EXCEPT !.held = <<>>]
    /\ UNCHANGED <<variables, variable_count, threads>>

\* the caller has the result
Return ==
    /\ pc = "done"
    /\ Reset
    /\ UNCHANGED earlier

\* a call whose values left the model is given up
Abandon ==
    /\ pc = "outside"
    /\ Reset
    /\ UNCHANGED earlier

\* the caller has the result of an evaluate_rpn call and keeps it, to
\* compare a later call with
Remember ==
    /\ pc = "done"
    /\ call = "evaluate"
    /\ earlier = <<>>
    /\ earlier' = <<[rpn |-> rpn, result |-> result]>>
    /\ Reset

Evaluate == pc = "idle" /\ \E r \in Inputs : EvalCall(r)

Convert == pc = "idle" /\ \E r \in Inputs : ConvCall(r)

Next ==
    \/ Evaluate
    \/ EvalStep
    \/ EvalFinish
    \/ Convert
    \/ ConvStep
    \/ ConvFinish
    \/ Undefined
    \/ Crash
    \/ Return
    \/ Abandon

Spec == Init /\ [][Next]_vars


\* ------------------------------------------------------------ two calls compared
\* The second specification: a caller that keeps the result of one
\* evaluate_rpn call while further calls run, over a small set of inputs.
HistLen == 2

HistTokens == {n1, tPi, tUnknown, tPlus}

\* every sequence over HistTokens of at most HistLen tokens, a NULL
\* argument, and 101 tokens "pi" and 101 tokens "1"
HistInputs ==
    {NullRpn}
        \cup {Short(t) : t \in SeqsUpTo(HistTokens, HistLen)}
        \cup {Rpn(<<>>, f, MAX_STACK_SIZE + 1) : f \in {tPi, n1}}

EvaluateHist == pc = "idle" /\ \E r \in HistInputs : EvalCall(r)

ConvertHist == pc = "idle" /\ \E r \in HistInputs : ConvCall(r)

NextHist ==
    \/ EvaluateHist
    \/ EvalStep
    \/ EvalFinish
    \/ ConvertHist
    \/ ConvStep
    \/ ConvFinish
    \/ Undefined
    \/ Crash
    \/ Return
    \/ Remember

SpecHist == Init /\ [][NextHist]_vars

\* ------------------------------------------------------------ a call that runs on
\* The third specification: a call that has begun goes on as long as it has
\* a step to take. Both functions are straight-line code around one for
\* loop and wait for nothing, so the turn of the loop that is enabled is
\* taken and so is the return after the loop. Nothing is promised of a call
\* once its behaviour is undefined. Its inputs are those of the second
\* specification and the numbers at and above INT_MAX.
LiveInputs == HistInputs \cup WideInputs

EvaluateLive == pc = "idle" /\ \E r \in LiveInputs : EvalCall(r)

ConvertLive == pc = "idle" /\ \E r \in LiveInputs : ConvCall(r)

NextLive ==
    \/ EvaluateLive
    \/ EvalStep
    \/ EvalFinish
    \/ ConvertLive
    \/ ConvStep
    \/ ConvFinish
    \/ Undefined
    \/ Crash
    \/ Return
    \/ Abandon

\* where a call is: the place in its code and the index of its loop
position == <<pc, i>>

\* A call in its loop moves on: to the next token, or out of the loop. The
\* steps of NextLive that do so are EvalStep, EvalFinish, ConvStep and
\* ConvFinish, of which one is enabled wherever a call is in its loop.
Proceed ==
    /\ pc \in {"eval", "conv"}
    /\ i' \in {i, i + 1}
    /\ pc' \in {"eval", "conv", "done", "ub", "ubint", "outside"}

SpecLive == Init /\ [][NextLive]_vars /\ WF_position(Proceed)

\* ------------------------------------------------------------ two threads
\* The fourth specification: two threads that call evaluate_rpn on a single
\* token, pi or e, at the same time. The static table and its count are
\* read and written without a lock, so the loads and the stores of the two
\* calls interleave one by one; a Variable is stored name first. The steps
\* are those of init_default_variables (line 437) and of
\* get_variable_value (line 503). Each thread makes at most MaxCalls calls,
\* which keeps variable_count, and with it the index of every store,
\* within the table.
MaxCalls == 1

ThreadTokens == {tPi, tE}

\* what a call and the conversion running beside the threads keep
others == <<pc, call, rpn, i, stack, result, conversion, earlier, heap>>

\* the thread t as it is after a step
Moves(t, thread) == threads' = [threads EXCEPT ![t] = thread]

\* the default variable a call appends after n others
Default(n) == IF n = 0 THEN Variable(tPi, M_PI) ELSE Variable(tE, M_E)

\* evaluate_rpn(name) is called
ThreadCall(t) ==
    /\ threads[t].at = "idle"
    /\ threads[t].calls < MaxCalls
    /\ \E name \in ThreadTokens :
        Moves(t, [threads[t] EXCEPT !.at = "reset", !.name = name, !.calls = @ + 1])
    /\ UNCHANGED <<variables, variable_count, others>>

\* variable_count = 0
ThreadReset(t) ==
    /\ threads[t].at = "reset"
    /\ variable_count' = 0
    /\ Moves(t, [threads[t] EXCEPT !.at = "load"])
    /\ UNCHANGED <<variables, others>>

\* variable_count++: the load
ThreadLoad(t) ==
    /\ threads[t].at = "load"
    /\ Moves(t, [threads[t] EXCEPT !.at = "increment", !.c = variable_count])
    /\ UNCHANGED <<variables, variable_count, others>>

\* variable_count++: the store
ThreadIncrement(t) ==
    /\ threads[t].at = "increment"
    /\ variable_count' = threads[t].c + 1
    /\ Moves(t, [threads[t] EXCEPT !.at = "name"])
    /\ UNCHANGED <<variables, others>>

\* variables[c] = (Variable){...}: the name
ThreadName(t) ==
    /\ threads[t].at = "name"
    /\ variables' = [variables EXCEPT ![threads[t].c].name = Default(threads[t].n).name]
    /\ Moves(t, [threads[t] EXCEPT !.at = "value"])
    /\ UNCHANGED <<variable_count, others>>

\* variables[c] = (Variable){...}: the value; the second append ends
\* init_default_variables and the lookup begins
ThreadValue(t) ==
    /\ threads[t].at = "value"
    /\ variables' = [variables EXCEPT ![threads[t].c].value = Default(threads[t].n).value]
    /\ Moves(t, [threads[t] EXCEPT !.at = IF threads[t].n = 0 THEN "load" ELSE "test",
                                   !.n = @ + 1])
    /\ UNCHANGED <<variable_count, others>>

\* i < variable_count; UNDEFINED_VARIABLE after the loop
ThreadTest(t) ==
    /\ threads[t].at = "test"
    /\ Moves(t, IF threads[t].k < variable_count
                THEN [threads[t] EXCEPT !.at = "compare"]
                ELSE [threads[t] EXCEPT !.at = "done",
                                        !.ret = Ret(Zero, UNDEFINED_VARIABLE)])
    /\ UNCHANGED <<variables, variable_count, others>>

\* strcmp(variables[i].name, name) == 0; i++
ThreadCompare(t) ==
    /\ threads[t].at = "compare"
    /\ Moves(t, IF variables[threads[t].k].name = threads[t].name
                THEN [threads[t] EXCEPT !.at = "fetch"]
                ELSE [threads[t] EXCEPT !.at = "test", !.k = @ + 1])
    /\ UNCHANGED <<variables, variable_count, others>>

\* return variables[i].value, which evaluate_rpn pushes and returns
ThreadFetch(t) ==
    /\ threads[t].at = "fetch"
    /\ Moves(t, [threads[t] EXCEPT !.at = "done",
                                   !.ret = Ret(variables[threads[t].k].value, SUCCESS)])
    /\ UNCHANGED <<variables, variable_count, others>>

\* the caller has the result
ThreadReturn(t) ==
    /\ threads[t].at = "done"
    /\ Moves(t, [IdleThread EXCEPT !.calls = threads[t].calls])
    /\ UNCHANGED <<variables, variable_count, others>>

NextThreads ==
    \/ \E t \in Threads : ThreadCall(t)
    \/ \E t \in Threads : ThreadReset(t)
    \/ \E t \in Threads : ThreadLoad(t)
    \/ \E t \in Threads : ThreadIncrement(t)
    \/ \E t \in Threads : ThreadName(t)
    \/ \E t \in Threads : ThreadValue(t)
    \/ \E t \in Threads : ThreadTest(t)
    \/ \E t \in Threads : ThreadCompare(t)
    \/ \E t \in Threads : ThreadFetch(t)
    \/ \E t \in Threads : ThreadReturn(t)

SpecThreads == Init /\ [][NextThreads]_vars

\* ------------------------------------------------------------ the claims
\* the token the loop is at
Token == TokenAt(rpn, i)

\* the error code of the running or returned call
Error == IF call = "evaluate" THEN result.error_code ELSE conversion.error_code

\* an evaluate_rpn call has returned
Evaluated == pc = "done" /\ call = "evaluate" /\ ~rpn.null

\* C1: in evaluate and in convertToInfix, once every token is consumed
\* without an error the call returns, with Success if and only if exactly
\* one element is on its stack and with StackUnderflow for any other depth.
C1_FinalDepth ==
    [][(pc \in {"eval", "conv"} /\ i >= rpn.length)
           => /\ pc' = "done"
              /\ Error' = SUCCESS <=> Len(stack) = 1
              /\ Len(stack) # 1 => Error' = STACK_UNDERFLOW]_vars

\* C1: an evaluation has consumed its three tokens and returned
\* StackUnderflow with two operands left.
C1_Witness ==
    /\ Evaluated /\ rpn.length = 3 /\ i = 3
    /\ Len(stack) = 2 /\ result.error_code = STACK_UNDERFLOW

\* the operators of one operand and of two, as the specification lists them
UnaryOperators ==
    {tFact, tSqrt, tSin, tCos, tTan, tArcsin, tArccos, tArctan, tLog, tLn}

BinaryOperators == {tPlus, tMinus, tTimes, tDivide, tPower}

RECURSIVE Depth(_, _, _)
\* The number of sub-expressions after tokens[k..], d before them; -1 when
\* an operator lacks an operand or the token is the reserved word ans.
Depth(tokens, k, d) ==
    IF k > Len(tokens) THEN d
    ELSE IF tokens[k] \in UnaryOperators
         THEN IF d < 1 THEN -1 ELSE Depth(tokens, k + 1, d)
    ELSE IF tokens[k] \in BinaryOperators
         THEN IF d < 2 THEN -1 ELSE Depth(tokens, k + 1, d - 1)
    ELSE IF tokens[k] = tAns THEN -1
    ELSE Depth(tokens, k + 1, d + 1)

\* a postfix sequence that represents a single expression
WellFormed(tokens) == Depth(tokens, 1, 0) = 1

RECURSIVE RunError(_, _, _, _)
\* what RunError returns after the outcome o of the k-th token
RunOn(tokens, k, o, t) ==
    IF o.kind = "next" THEN RunError(tokens, k + 1, o.stack, t)
    ELSE IF o.kind = "return" THEN o.error_code
    ELSE -1

\* The error code evaluate_rpn returns for the tokens from the k-th on, its
\* stack being stk and its variable table t; -1 when the evaluation leaves
\* the model.
RunError(tokens, k, stk, t) ==
    IF k > Len(tokens) THEN EvalFinal(stk).error_code
    ELSE RunOn(tokens, k,
               EvalToken(tokens[k], stk, Len(tokens), t.variables, t.variable_count), t)

\* the errors of an operand outside the domain of its operator
DomainErrors ==
    {DIVISION_BY_ZERO, UNDEFINED_VARIABLE, FACTORIAL_ERROR,
     SQUARE_ROOT_INVALID_OPERATOR, LOG_ERROR, LN_ERROR, TAN_INVALID_OPERATOR,
     INVALID_TRIG_OPERATOR}

\* a well-formed sequence whose evaluation raises no domain error
Evaluable(tokens) ==
    /\ WellFormed(tokens)
    /\ RunError(tokens, 1, <<>>, init_default_variables(variables, variable_count))
           \in ErrorCodes \ DomainErrors

\* C2: for every well-formed postfix sequence of a single expression whose
\* evaluation raises no domain error, evaluate and convertToInfix both end
\* with exactly one element on their stack, and neither reports
\* StackUnderflow (convertToInfix may still run out of memory).
C2_WellFormedLeavesOne ==
    (pc = "done" /\ ~rpn.null /\ rpn.length = Len(rpn.head) /\ Evaluable(rpn.head))
        => /\ Error \in {SUCCESS, MEMORY_ERROR}
           /\ Error = SUCCESS => Len(stack) = 1

\* C3: in evaluate an operator token on a stack that is too shallow (a unary
\* operator or function on no value, any other operator on fewer than two)
\* always yields StackUnderflow.
C3_ShallowIsUnderflow ==
    [][(/\ pc = "eval" /\ i < rpn.length /\ is_operator(Token)
        /\ Len(stack) < (IF Token \in UnaryOperators THEN 1 ELSE 2))
           => pc' = "done" /\ result'.error_code = STACK_UNDERFLOW]_vars

\* C3, as the code has it: a unary operator or function on an empty stack
\* yields InvalidOperator, any other operator on fewer than two values
\* yields StackUnderflow; either way the evaluation returns at that token
\* with the value 0.0.
C3_ShallowErrors ==
    [][(/\ pc = "eval" /\ i < rpn.length /\ is_operator(Token)
        /\ Len(stack) < (IF Token \in UnaryOperators THEN 1 ELSE 2))
           => /\ pc' = "done" /\ i' = i /\ result'.value = Zero
              /\ result'.error_code =
                     IF Token \in UnaryOperators THEN INVALID_OPERATOR
                     ELSE STACK_UNDERFLOW]_vars

\* C3: an evaluation has returned InvalidOperator at a square root met on an
\* empty stack.
C3_Witness ==
    /\ Evaluated /\ i < rpn.length /\ Token = tSqrt
    /\ stack = <<>> /\ result.error_code = INVALID_OPERATOR

\* an evaluate_rpn call on two number tokens, the second not zero, and the
\* factorial sign has returned
FactorialOfTwo ==
    /\ Evaluated /\ rpn.length = 3 /\ Len(rpn.head) = 3
    /\ rpn.head[3] = tFact
    /\ ~is_operator(rpn.head[1]) /\ is_number(rpn.head[1])
    /\ ~is_operator(rpn.head[2]) /\ is_number(rpn.head[2])
    /\ ~IsZero(atof(rpn.head[2]))

C5_StackBounded ==
    call = "evaluate"
        => /\ Len(stack) <= MAX_STACK_SIZE
           /\ pc # "ub"

\* C6: evaluate never returns ExpressionLengthMaximum for a sequence of
\* exactly 1000 tokens and returns it for every sequence of 1001 tokens or
\* more, whatever its tokens are.
C6_LengthLimit ==
    Evaluated
        => /\ rpn.length = MAX_EXPR_LENGTH => result.error_code # EXPR_LENGHT_MAXIMUM
           /\ rpn.length > MAX_EXPR_LENGTH => result.error_code = EXPR_LENGHT_MAXIMUM

\* C7: evaluate is fail-fast: it returns from inside its loop only at a
\* token that fails, with the error of that token, and the value it returns
\* with any error is 0.0.
C7_FailFast ==
    Evaluated
        => /\ i < rpn.length => result.error_code # SUCCESS
           /\ result.error_code # SUCCESS => result.value = Zero

\* the tokens that are neither an operator nor a number nor pi nor e
Unclassified(token) ==
    /\ token \notin Operators
    /\ ~is_number(token)
    /\ token \notin {tPi, tE}

\* C8: a token that is neither an operator nor a number is looked up as a
\* variable, and when it is not pi or e the evaluation returns
\* UndefinedVariable at it, never InvalidOperator.
C8_UnknownIsUndefinedVariable ==
    [][(pc = "eval" /\ i < rpn.length /\ Unclassified(Token))
           => /\ pc' = "done" /\ i' = i
              /\ result' = Ret(Zero, UNDEFINED_VARIABLE)]_vars

\* C8: an evaluation has returned UndefinedVariable at the token %% met
\* with two values on the stack.
C8_Witness ==
    /\ Evaluated /\ i < rpn.length /\ Token = tUnknown
    /\ Len(stack) = 2 /\ result.error_code = UNDEFINED_VARIABLE

\* C9: whatever calls ran before, while an evaluate call runs the variable
\* table holds exactly pi and e, in that order, with their built-in values.
C9_TableReseeded ==
    (pc \in {"eval", "ub"} /\ call = "evaluate")
        => /\ variable_count = 2
           /\ variables[0] = Variable(tPi, M_PI)
           /\ variables[1] = Variable(tE, M_E)

\* C9: after an earlier evaluate call, a later one is at a token pi that it
\* is about to look up.
C9_Witness ==
    /\ earlier # <<>>
    /\ pc = "eval" /\ i < rpn.length /\ Token = tPi

\* C10: two evaluate calls on the same sequence return the same value and
\* error whatever calls ran before each, and the error is one of the 14
\* enumerated kinds.
C10_Deterministic ==
    (Evaluated /\ earlier # <<>> /\ earlier[1].rpn = rpn)
        => /\ result = earlier[1].result
           /\ result.error_code \in ErrorCodes

\* the turn of the evaluation loop that is about to run processes an
\* operator token and goes on to the next token
OperatorApplied ==
    /\ pc = "eval" /\ i < rpn.length /\ is_operator(Token)
    /\ pc' = "eval"

\* C11: of a binary operator the value popped first is the right operand b
\* and the value popped second the left operand a, so that x y - is x - y
\* and x y / is x / y (rounded to 9 decimals, as every result); one result
\* is pushed back: a binary operator lowers the depth by exactly 1, a unary
\* one leaves it as it is, and the values below are untouched.
C11_OperandOrder ==
    [][OperatorApplied
           => IF Token \in UnaryOperators
              THEN /\ Len(stack') = Len(stack)
                   /\ Pop(stack') = Pop(stack)
              ELSE /\ Len(stack') = Len(stack) - 1
                   /\ Pop(stack') = Pop(Pop(stack))
                   /\ Token = tMinus
                          => Top(stack') =
                                 round_to_9_decimals(DSub(Top(Pop(stack)), Top(stack)))
                   /\ Token = tDivide
                          => Top(stack') =
                                 round_to_9_decimals(DDiv(Top(Pop(stack)), Top(stack)))]_vars

\* C11: the evaluation of 1 2 - has returned -1, and not 1.
C11_Witness ==
    /\ Evaluated /\ rpn.head = <<n1, n2, tMinus>> /\ rpn.length = 3
    /\ result = Ret(IntVal(-1), SUCCESS)

\* token is a number token, as evaluate_rpn classifies it
NumberToken(token) == ~is_operator(token) /\ is_number(token)

\* an evaluate_rpn call on two number tokens and the operator op has returned
BinaryOnNumbers(op) ==
    /\ Evaluated /\ rpn.length = 3 /\ Len(rpn.head) = 3
    /\ NumberToken(rpn.head[1]) /\ NumberToken(rpn.head[2])
    /\ rpn.head[3] = op

\* C12: division reports DivisionByZero exactly when the divisor is 0:
\* evaluate of a 0 / returns DivisionByZero (with the value 0.0) for every
\* number a, and evaluate of a b / returns Success for every b that is not 0.
C12_DivisionByZero ==
    BinaryOnNumbers(tDivide)
        => IF atof(rpn.head[2]) = Zero
           THEN result = Ret(Zero, DIVISION_BY_ZERO)
           ELSE result.error_code = SUCCESS

\* C12: the evaluation of 5 0 / has returned DivisionByZero.
C12_Witness ==
    /\ BinaryOnNumbers(tDivide) /\ rpn.head = <<n5, n0, tDivide>>
    /\ result = Ret(Zero, DIVISION_BY_ZERO)

\* a division by a divisor that is not 0 has returned its quotient
C12_WitnessQuotient ==
    /\ BinaryOnNumbers(tDivide) /\ rpn.head = <<n1, nHalf, tDivide>>
    /\ result = Ret(IntVal(2), SUCCESS)

\* the value of an operand token: a number, or one of the names pi and e
OperandValue(token) ==
    IF NumberToken(token) THEN atof(token)
    ELSE get_variable_value(token, variables, variable_count).value

\* an evaluate_rpn call on one operand (a number, pi or e) and the operator
\* op has returned
UnaryOnOperand(op) ==
    /\ Evaluated /\ rpn.length = 2 /\ Len(rpn.head) = 2
    /\ NumberToken(rpn.head[1]) \/ rpn.head[1] \in {tPi, tE}
    /\ rpn.head[2] = op

\* v < 0, and |v| > 1, read off the digits of v
Negative(v) == v.neg /\ v # Zero

AboveOne(v) == v.w > 1 \/ (v.w = 1 /\ (v.n > 0 \/ v.p > 0))

\* the failure kind the specification lists for the function f at a, SUCCESS
\* inside the domain
DomainFailure(f, a) ==
    CASE f = tSqrt -> IF Negative(a) THEN SQUARE_ROOT_INVALID_OPERATOR ELSE SUCCESS
      [] f \in {tArcsin, tArccos} -> IF AboveOne(a) THEN INVALID_TRIG_OPERATOR ELSE SUCCESS
      [] f = tLog -> IF Negative(a) \/ a = Zero THEN LOG_ERROR ELSE SUCCESS
      [] f = tLn -> IF Negative(a) \/ a = Zero THEN LN_ERROR ELSE SUCCESS

\* C13: for sqrt, arcsin, arccos, log and ln, evaluate of a f returns the
\* failure kind listed for f exactly when a is outside the domain of f
\* (sqrt: a < 0; arcsin, arccos: a < -1 or a > 1; log, ln: a <= 0) and
\* Success otherwise.
C13_DomainErrors ==
    \A f \in {tSqrt, tArcsin, tArccos, tLog, tLn} :
        UnaryOnOperand(f)
            => result.error_code = DomainFailure(f, OperandValue(rpn.head[1]))

\* C13: the evaluation of -1 sqrt has returned SquareRootInvalid.
C13_Witness ==
    /\ UnaryOnOperand(tSqrt) /\ rpn.head[1] = nMinus1
    /\ result = Ret(Zero, SQUARE_ROOT_INVALID_OPERATOR)

\* an evaluation at the edge of a domain has returned Success: arcsin of 1
C13_WitnessInside ==
    /\ UnaryOnOperand(tArcsin) /\ rpn.head[1] = n1
    /\ result.error_code = SUCCESS

RECURSIVE Product(_)
\* 1 * 2 * ... * k
Product(k) == IF k = 0 THEN 1 ELSE k * Product(k - 1)

\* v is a whole number that is not negative
WholeNumber(v) == v \in {BeyondInt, AtIntMax} \/ (Tracked(v) /\ ~Negative(v) /\ v.n = 0 /\ v.p = 0)

\* the result evaluate must give for a, "!" when a has the value v
FactorialOf(v) ==
    IF ~WholeNumber(v) THEN result.error_code = FACTORIAL_ERROR
    ELSE /\ result.error_code = SUCCESS
         /\ (Tracked(v) /\ v.w <= 12) => result.value = IntVal(Product(v.w))

\* C14: evaluate of a, "!" returns Success with the value a! (the product
\* 1 * 2 * ... * a; 1 for 0 and 1) for every whole number a that is not
\* negative, and FactorialError for every negative and every fractional a.
C14_Factorial ==
    UnaryOnOperand(tFact) => FactorialOf(OperandValue(rpn.head[1]))

\* a rpn_to_infix call has returned
Converted == pc = "done" /\ call = "convert" /\ ~rpn.null

\* the turn of the conversion loop that is about to run combines the two
\* top strings under a token of signs and goes on to the next token
Combining(signs) ==
    /\ pc = "conv" /\ i < rpn.length /\ Token \in signs
    /\ pc' = "conv"

\* C15: under + and - convertToInfix wraps neither operand: the string it
\* pushes is a, a space, the sign, a space, b, with a the left operand; so
\* 2 3 + gives "2 + 3", 2 3 * 4 + gives "2 * 3 + 4" and 2 3 4 * + gives
\* "2 + 3 * 4".
C15_NoParenthesesUnderSum ==
    /\ [][Combining({tPlus, tMinus})
            => Top(stack') = Top(Pop(stack)) \o <<" ", Token[1], " ">> \o Top(stack)]_vars
    /\ [](Converted /\ conversion.error_code = SUCCESS
            => /\ rpn.head = <<n2, n3, tPlus>> => conversion.expression = <<"2", " ", "+", " ", "3">>
               /\ rpn.head = <<n2, n3, tTimes, n4, tPlus>>
                      => conversion.expression = <<"2", " ", "*", " ", "3", " ", "+", " ", "4">>
               /\ rpn.head = <<n2, n3, n4, tTimes, tPlus>>
                      => conversion.expression = <<"2", " ", "+", " ", "3", " ", "*", " ", "4">>)

C15_Witness ==
    /\ Converted
    /\ rpn.head = <<n2, n3, tTimes, n4, tPlus>>
    /\ conversion = Conv(<<"2", " ", "*", " ", "3", " ", "+", " ", "4">>, SUCCESS)

\* An expression tree: a leaf holds an operand token, a node a sign and its
\* left and right operands.
Leaf(token) == [leaf |-> token]

Node(sign, left, right) == [sign |-> sign, left |-> left, right |-> right]

RECURSIVE Build(_, _, _)
\* the trees on the stack after the postfix tokens from the k-th on
Build(tokens, k, stk) ==
    IF k > Len(tokens) THEN stk
    ELSE IF tokens[k] \in BinarySigns
         THEN Build(tokens, k + 1,
                    Append(Pop(Pop(stk)), Node(tokens[k], Top(Pop(stk)), Top(stk))))
    ELSE Build(tokens, k + 1, Append(stk, Leaf(tokens[k])))

\* the expression tree of a postfix sequence of one expression
TreeOf(tokens) == Build(tokens, 1, <<>>)[1]

\* an operand token that reads as one word: it has a character, and no
\* space and no parenthesis
OneWord(token) ==
    /\ Len(token) > 0
    /\ Len(token) < 50
    /\ \A k \in 1..Len(token) : ~IsSpace(token[k]) /\ token[k] \notin {"(", ")"}

\* a sequence of operand tokens and binary signs
BinaryPostfix(tokens) ==
    \A k \in 1..Len(tokens) :
        tokens[k] \in BinarySigns \/ (~is_operator(tokens[k]) /\ OneWord(tokens[k]))

Word(word) == IF word = <<>> THEN <<>> ELSE <<word>>

RECURSIVE Lex(_, _, _)
\* The words of an infix string from its k-th character on, word being the
\* characters of the word under way: spaces separate words, a parenthesis
\* is a word of its own.
Lex(text, k, word) ==
    IF k > Len(text) THEN Word(word)
    ELSE IF text[k] = " " THEN Word(word) \o Lex(text, k + 1, <<>>)
    ELSE IF text[k] \in {"(", ")"}
         THEN Word(word) \o <<<<text[k]>>>> \o Lex(text, k + 1, <<>>)
    ELSE Lex(text, k + 1, Append(word, text[k]))

\* standard precedence: ^ above * and /, above + and -
Precedence(sign) ==
    IF sign = tPower THEN 3 ELSE IF sign \in {tTimes, tDivide} THEN 2 ELSE 1

Parsed(tree, pos) == [tree |-> tree, pos |-> pos]

RECURSIVE ReadPrimary(_, _)
RECURSIVE ReadFrom(_, _, _)
RECURSIVE ReadMore(_, _, _)
RECURSIVE ReadRight(_, _, _, _)
\* an operand or a parenthesized expression at words[pos]
ReadPrimary(words, pos) ==
    IF words[pos] = <<"(">>
    THEN Parsed(ReadFrom(words, pos + 1, 1).tree, ReadFrom(words, pos + 1, 1).pos + 1)
    ELSE Parsed(Leaf(words[pos]), pos + 1)

\* the longest expression at words[pos] whose signs have at least the
\* precedence least
ReadFrom(words, pos, least) == ReadMore(words, ReadPrimary(words, pos), least)

\* left, followed by the signs of at least the precedence least with their
\* right operands: signs of equal precedence group from left to right
ReadMore(words, left, least) ==
    IF /\ left.pos <= Len(words)
       /\ words[left.pos] \in BinarySigns
       /\ Precedence(words[left.pos]) >= least
    THEN ReadRight(words, left, least,
                   ReadFrom(words, left.pos + 1, Precedence(words[left.pos]) + 1))
    ELSE left

ReadRight(words, left, least, right) ==
    ReadMore(words,
             Parsed(Node(words[left.pos], left.tree, right.tree), right.pos),
             least)

\* the expression tree an infix string denotes
Read(text) == ReadFrom(Lex(text, 1, <<>>), 1, 1).tree

\* C16: for every postfix sequence of the signs + - * / ^ over single-token
\* operands that convertToInfix accepts, the returned string, read with
\* standard precedence and left-to-right grouping of signs of equal
\* precedence, denotes the expression tree of the postfix sequence.
C16_InfixDenotesInput ==
    (/\ Converted /\ conversion.error_code = SUCCESS
     /\ Len(stack[1]) < MAX_EXPR_LENGTH
     /\ rpn.length = Len(rpn.head) /\ BinaryPostfix(rpn.head))
        => Read(conversion.expression) = TreeOf(rpn.head)

\* a call is made with a NULL argument
NullCall == pc = "idle" /\ pc' # "idle" /\ rpn'.null

\* C17: with a null token sequence evaluate returns (0.0, MemoryError) and
\* convertToInfix returns (empty string, MemoryError), at once, before any
\* token is processed and with the variable table left as it was.
C17_NullArgument ==
    [][NullCall
        => /\ pc' = "done" /\ i' = 0 /\ stack' = <<>>
           /\ variables' = variables /\ variable_count' = variable_count
           /\ call' = "evaluate" => result' = Ret(Zero, MEMORY_ERROR)
           /\ call' = "convert" => conversion' = Conv(<<>>, MEMORY_ERROR)]_vars

C17_Witness ==
    /\ pc = "done" /\ call = "evaluate" /\ rpn.null
    /\ result = Ret(Zero, MEMORY_ERROR)
    /\ variable_count = 0

C17_WitnessConvert ==
    /\ pc = "done" /\ call = "convert" /\ rpn.null
    /\ conversion = Conv(<<>>, MEMORY_ERROR)
    /\ variable_count = 2

\* v is a whole multiple of 10^-9
NineDecimals(v) == Tracked(v) /\ v.p = 0

RECURSIVE OpenAt(_, _)
\* the parentheses opened and not yet closed after the first k characters
OpenAt(expr, k) ==
    IF k = 0 THEN 0
    ELSE OpenAt(expr, k - 1)
             + (IF expr[k] = "(" THEN 1 ELSE IF expr[k] = ")" THEN -1 ELSE 0)

\* expr is enclosed by one matching pair of parentheses: the one opened at
\* its first character is closed by its last
Enclosed(expr) ==
    /\ expr[1] = "(" /\ expr[Len(expr)] = ")"
    /\ \A k \in 1..(Len(expr) - 1) : OpenAt(expr, k) > 0

\* expr holds a sign of lower precedence than op, by the stated rule
HoldsLower(expr, op) ==
    \E k \in 1..Len(expr) :
        \/ op \in {"*", "/"} /\ expr[k] \in {"+", "-"}
        \/ op = "^" /\ expr[k] \in {"*", "/"}

\* whether the stated rule allows the answer wrapped for expr under op
RuleAllows(expr, op, wrapped) ==
    Len(expr) > 1
        => /\ Enclosed(expr) => ~wrapped
           /\ (~Enclosed(expr) /\ HoldsLower(expr, op)) => wrapped

\* C19: for every operand string of more than one character,
\* needs-parentheses is false when the string is enclosed by one matching
\* pair of outer parentheses, and otherwise true whenever op is * or / and
\* the string holds + or -, or op is ^ and the string holds * or /: so
\* "(1 + 2) * (3 + 4)" is wrapped under ^.
C19_NeedsParenthesesRule ==
    [][Combining(Operators)
        => \E wa \in BOOLEAN, wb \in BOOLEAN :
               /\ Top(stack') = Paren(wa, Top(Pop(stack))) \o <<" ", Token[1], " ">>
                                    \o Paren(wb, Top(stack))
               /\ RuleAllows(Top(Pop(stack)), Token[1], wa)
               /\ RuleAllows(Top(stack), Token[1], wb)]_vars

\* whether the answer wrapped is right for the operand expr of the token:
\* under sqrt and ! every operand of more than one character that is not
\* parenthesized already is wrapped
WrappedUnder(token, expr, wrapped) ==
    (token \in {tSqrt, tFact} /\ Len(expr) > 1 /\ ~Enclosed(expr)) => wrapped

\* C20: the string convertToInfix pushes for an operator token is the
\* rendered a, one space, the symbol of the token, one space, the rendered
\* b, for every token of the operator set, the names of more than one
\* character (sqrt, sin, log, ...) included; under sqrt and ! every operand
\* of more than one character that is not parenthesized is wrapped.
C20_CombinedString ==
    [][Combining(Operators)
        => \E wa \in BOOLEAN, wb \in BOOLEAN :
               /\ Top(stack') = Paren(wa, Top(Pop(stack))) \o <<" ">> \o Token \o <<" ">>
                                    \o Paren(wb, Top(stack))
               /\ WrappedUnder(Token, Top(Pop(stack)), wa)
               /\ WrappedUnder(Token, Top(stack), wb)]_vars

\* the turn of the evaluation loop that is about to run processes "ans"
AnsReached == pc = "eval" /\ i < rpn.length /\ Token = tAns

C21_WitnessShallow ==
    /\ Evaluated
    /\ rpn.head = <<n1, tAns>>
    /\ result = Ret(Zero, STACK_UNDERFLOW)

\* token without the one newline that may end it
WithoutNewline(token) ==
    IF Len(token) > 0 /\ token[Len(token)] = "\n"
    THEN SubSeq(token, 1, Len(token) - 1)
    ELSE token

\* text without the sign that may start it
WithoutSign(text) ==
    IF Len(text) > 0 /\ text[1] \in {"+", "-"} THEN Tail(text) ELSE text

\* text is made of digits and at most one point, with a digit at least
DigitsAndPoint(text) ==
    /\ \E k \in 1..Len(text) : IsDigit(text[k])
    /\ \A k \in 1..Len(text) : IsDigit(text[k]) \/ text[k] = "."
    /\ Cardinality({k \in 1..Len(text) : text[k] = "."}) <= 1

\* The token is, in its entirety, a floating-point literal with at most one
\* newline after it (the literals of the model have no exponent).
Literal(token) == DigitsAndPoint(WithoutSign(WithoutNewline(token)))

\* the turn of the evaluation loop that is about to run processes a token
\* that is no operator
OperandReached == pc = "eval" /\ i < rpn.length /\ ~is_operator(Token)

\* C22: is-number holds exactly of the tokens that are in their entirety a
\* floating-point literal with at most one newline after it: such a token
\* is pushed as a number, and any other token that is no operator (the
\* empty token, a newline alone) is looked up as a variable, which pushes
\* nothing unless it is pi or e.
C22_NumberIsWholeLiteral ==
    [][OperandReached
        => IF Literal(Token)
           THEN /\ result'.error_code # UNDEFINED_VARIABLE
                /\ pc' = "eval" => stack' = Append(stack, atof(Token))
           ELSE Token \notin {tPi, tE}
                    => /\ pc' = "done"
                       /\ stack' = stack
                       /\ result'.error_code = UNDEFINED_VARIABLE]_vars

\* C23: when convertToInfix succeeds the returned text is the prefix of the
\* one remaining partial expression of min(its length, 999) characters; a
\* longer expression is cut and the call still returns Success.
C23_CutAt999 ==
    [][(pc = "conv" /\ i >= rpn.length /\ Len(stack) = 1)
        => /\ pc' = "done"
           /\ conversion'.error_code = SUCCESS
           /\ Len(conversion'.expression) = Min(Len(stack[1]), 999)
           /\ conversion'.expression = SubSeq(stack[1], 1, Len(conversion'.expression))]_vars

C23_Witness ==
    /\ Converted
    /\ conversion.error_code = SUCCESS
    /\ Len(stack[1]) = 1000
    /\ Len(conversion.expression) = 999

\* C25: in every state of convertToInfix the stack of partial expressions
\* holds at most 100 strings: nothing is written past stack[99], also when
\* more than 100 tokens in a row are no operators.
C25_StringStackBounded ==
    call = "convert" => Len(stack) <= MAX_STACK_SIZE

\* C29: the buffer of length(a) + length(b) + 10 bytes always has room for
\* the combined expression and its terminator, so the string pushed is
\* never cut: it is a and b, each wrapped or not, around the sign and its
\* two spaces, of length(a) + length(b) + 3 characters and 2 more for each
\* wrapped operand.
C29_CombineFits ==
    [][Combining(Operators)
        => \E wa \in BOOLEAN, wb \in BOOLEAN :
            /\ Top(stack') = Paren(wa, Top(Pop(stack))) \o <<" ", Token[1], " ">>
                                \o Paren(wb, Top(stack))
            /\ Len(Top(stack')) = Len(Top(Pop(stack))) + Len(Top(stack)) + 3
                                    + (IF wa THEN 2 ELSE 0) + (IF wb THEN 2 ELSE 0)
            /\ Len(Top(stack')) + 1 <= Len(Top(Pop(stack))) + Len(Top(stack)) + 10]_vars

C29_Witness ==
    /\ pc = "conv" /\ call = "convert"
    /\ rpn.head = <<n1, n2, tPlus, n3, n4, tPlus, tTimes>> /\ i = 7
    /\ stack = <<<<"(", "1", " ", "+", " ", "2", ")", " ", "*", " ", "(", "3", " ", "+", " ", "4", ")">>>>

\* a step of rpn_to_infix: its call, a turn of its loop, or its end
ConvertStep == pc \in {"idle", "conv"} /\ call' = "convert"

\* the turn of the conversion loop that is about to run is at a token that
\* is no operator
OperandConverted == pc = "conv" /\ i < rpn.length /\ ~is_operator(Token)

\* C27: convertToInfix leaves the variable table and its count as they
\* are and looks no name up: a token that is no operator is pushed as it
\* is, registered or not, and the only error of that turn is a failed
\* allocation; so a sequence on which evaluate returns UndefinedVariable
\* can be converted with Success.
C27_NoVariableTable ==
    /\ [][ConvertStep => UNCHANGED <<variables, variable_count>>]_vars
    /\ [][OperandConverted
            => /\ pc' = "conv" => stack' = Append(stack, Token) /\ i' = i + 1
               /\ pc' = "done" => conversion'.error_code = MEMORY_ERROR
               /\ conversion'.error_code # UNDEFINED_VARIABLE]_vars

C27_Witness ==
    /\ Converted
    /\ earlier # <<>>
    /\ rpn = Short(<<tUnknown>>)
    /\ earlier[1].rpn = rpn
    /\ earlier[1].result = Ret(Zero, UNDEFINED_VARIABLE)
    /\ conversion = Conv(tUnknown, SUCCESS)

\* a call is in its token loop
Running == pc \in {"eval", "conv"}

\* C24: every evaluate and every convertToInfix call on a finite token
\* sequence terminates: a turn of the loop takes the tokens one by one in
\* their order, each once, so no call takes more than length turns, and
\* then the call returns.
C24_Terminates ==
    /\ [][Running => \/ pc' = pc /\ i < rpn.length /\ i' = i + 1
                     \/ pc' # pc /\ i' = i]_vars
    /\ [](Running => i <= rpn.length)
    /\ Running ~> pc \in {"done", "outside"}

\* the blocks the stack of rpn_to_infix points to
Held == {heap.held[k] : k \in 1..Len(heap.held)}

C26_WitnessSuccess ==
    /\ Converted /\ rpn.head = <<n2, n3, n4, tTimes, tPlus>>
    /\ conversion.error_code = SUCCESS /\ heap.live = {}

C26_WitnessOperator ==
    /\ Converted /\ rpn.head = <<n1, tPlus>> /\ i = 1
    /\ conversion.error_code = STACK_UNDERFLOW /\ heap.live = {}

C26_WitnessDepth ==
    /\ Converted /\ rpn.head = <<n1, n2>> /\ i = 2
    /\ conversion.error_code = STACK_UNDERFLOW /\ heap.live = {}

C26_WitnessPush ==
    /\ Converted /\ rpn.head = <<n1, n2>> /\ i = 1
    /\ conversion.error_code = MEMORY_ERROR /\ heap.live = {}

\* the value of the built-in constant of a name
BuiltIn(name) == IF name = tPi THEN M_PI ELSE M_E

\* C28: however two evaluate calls of two threads interleave, the lookup
\* of pi and of e of each call returns the built-in value with Success,
\* and variable_count stays within 0..2.
C28_ConcurrentLookups ==
    /\ \A t \in Threads :
        threads[t].at = "done" => threads[t].ret = Ret(BuiltIn(threads[t].name), SUCCESS)
    /\ variable_count \in 0..2

=============================================================================
